---- MODULE Spec2Model ----
(***************************************************************************)
(* Model of scripts/add-vendor-to-catalog.py: load_vendor_map builds a     *)
(* handle -> vendor dictionary from Products.csv, main joins it into       *)
(* valid_image_catalog.json, copies the catalog file to a timestamped      *)
(* backup and overwrites the catalog file.                                 *)
(*                                                                         *)
(* Text is a sequence of one-character strings, so that str.lower and      *)
(* str.strip are computed.  A Python dict is a function whose DOMAIN is    *)
(* the set of keys present.  A file is a record with a "kind": "missing",  *)
(* "json" (a well-formed document, with the layout "fmt" of its text),     *)
(* "garbage" / "truncated" (bytes json.load rejects).                      *)
(***************************************************************************)
EXTENDS Integers, Sequences, FiniteSets, TLC

\* ----------------------------------------------------------------- bounds
\* Most data rows of a vendor table (SpecLoad).
MaxRows == 3
\* Most products of a catalog.
MaxProducts == 2
\* Last value int(datetime.now().timestamp()) takes; the clock starts at 0.
MaxClock == 1
\* Most runs of main on the same directory (SpecRerun).
MaxRuns == 2

\* ------------------------------------------------------------------- text
EmptyText == << >>

\* str.lower, one character
LowerChar(c) ==
    CASE c = "A" -> "a"
      [] c = "B" -> "b"
      [] OTHER -> c

\* str.lower
lower(s) == [i \in 1..Len(s) |-> LowerChar(s[i])]

IsSpace(c) == c = " "

RECURSIVE lstrip(_)
lstrip(s) ==
    IF s # << >> /\ IsSpace(Head(s)) THEN lstrip(Tail(s)) ELSE s

RECURSIVE rstrip(_)
rstrip(s) ==
    IF s # << >> /\ IsSpace(s[Len(s)]) THEN rstrip(SubSeq(s, 1, Len(s) - 1)) ELSE s

\* str.strip
strip(s) == rstrip(lstrip(s))

\* ---------------------------------------------------------- Python values
Str(s) == [t |-> "str", v |-> s]
PyNone == [t |-> "None"]

\* dict.get(key, default)
Get(d, key, default) == IF key \in DOMAIN d THEN d[key] ELSE default

\* d[key] = value
Put(d, key, value) ==
    [k \in DOMAIN d \cup {key} |-> IF k = key THEN value ELSE d[k]]

EmptyDict == [k \in {} |-> EmptyText]

Ok(x) == [ok |-> TRUE, val |-> x]
Raise(e) == [ok |-> FALSE, err |-> e]

SeqsUpTo(S, n) == UNION {[1..k -> S] : k \in 0..n}

\* --------------------------------------------------------- load_vendor_map
\* csv.DictReader: a data line becomes a dict over the header's columns; a
\* line with fewer fields than the header has its missing columns filled
\* with restval = None.
DictRow(header, fields) ==
    [c \in {header[i] : i \in 1..Len(header)} |->
        LET i == CHOOSE j \in 1..Len(header) : header[j] = c
        IN  IF i <= Len(fields) THEN Str(fields[i]) ELSE PyNone]

\* the body of the "for row in reader" loop: the vendor_map after the row,
\* or the exception the row raises
\* mutant of LoadRow: a handle already mapped keeps its first vendor
LoadRowFirstWins(vm, row) ==
    LET h == Get(row, "Handle", Str(EmptyText))
        v == Get(row, "Vendor", Str(EmptyText))
    IN  IF h.t = "None" \/ v.t = "None" THEN Raise("AttributeError")
        ELSE LET handle == strip(lower(h.v))
                 vendor == strip(v.v)
             IN  IF handle # EmptyText /\ vendor # EmptyText /\ handle \notin DOMAIN vm
                 THEN Ok(Put(vm, handle, vendor))
                 ELSE Ok(vm)

LoadRow(vm, row) ==
    LET h == Get(row, "Handle", Str(EmptyText))
        v == Get(row, "Vendor", Str(EmptyText))
    IN  IF h.t = "None" THEN Raise("AttributeError")
        ELSE IF v.t = "None" THEN Raise("AttributeError")
        ELSE LET handle == strip(lower(h.v))
                 vendor == strip(v.v)
             IN  IF handle # EmptyText /\ vendor # EmptyText
                 THEN Ok(Put(vm, handle, vendor))
                 ELSE Ok(vm)

\* the loop over the reader's rows, from line i on; DictReader skips a line
\* with no fields at all
RECURSIVE LoadRows(_, _, _, _)
LoadRows(header, lines, i, vm) ==
    IF i > Len(lines) THEN Ok(vm)
    ELSE IF lines[i] = << >> THEN LoadRows(header, lines, i + 1, vm)
    ELSE LET r == LoadRow(vm, DictRow(header, lines[i]))
         IN  IF r.ok THEN LoadRows(header, lines, i + 1, r.val) ELSE r

\* mutant of load_vendor_map: an unreadable table counts as an empty one
load_vendor_map_swallow(file) ==
    IF file.kind # "table" THEN Ok(EmptyDict)
    ELSE LoadRows(file.header, file.lines, 1, EmptyDict)

load_vendor_map(file) ==
    IF file.kind = "missing" THEN Raise("FileNotFound")
    ELSE IF file.kind = "undecodable" THEN Raise("MalformedInput")
    ELSE LoadRows(file.header, file.lines, 1, EmptyDict)

\* ------------------------------------------------------------------ files
MissingFile == [kind |-> "missing"]
Garbage == [kind |-> "garbage"]
Truncated == [kind |-> "truncated"]
Json(fmt, doc) == [kind |-> "json", fmt |-> fmt, doc |-> doc]
Table(header, lines) == [kind |-> "table", header |-> header, lines |-> lines]

\* json.load(f) on the opened catalog file
json_load(file) ==
    IF file.kind = "missing" THEN Raise("FileNotFound")
    ELSE IF file.kind = "json" THEN Ok(file.doc)
    ELSE Raise("MalformedInput")

\* mutant of json_dump: only the products are written back
json_dump_products_only(doc) ==
    Json("indent2", [k \in DOMAIN doc \cap {"products"} |-> doc[k]])

\* json.dump(catalog, f, indent=2): the whole document, laid out with indent 2
json_dump(doc) == Json("indent2", doc)

\* ------------------------------------------------------------------- join
\* mutant of handle_of: .lower() forgotten
handle_not_lowered(product) == strip(Get(product, "handle", EmptyText))

\* line 45: handle = product.get('handle', '').lower().strip()
handle_of(product) == strip(lower(Get(product, "handle", EmptyText)))

\* line 47: handle and handle in vendor_map
Matches(product, vm) ==
    handle_of(product) # EmptyText /\ handle_of(product) \in DOMAIN vm

\* mutant of JoinProduct: the vendor is appended to the one already there
JoinProductAppend(product, vm) ==
    IF Matches(product, vm)
    THEN Put(product, "vendor",
             Get(product, "vendor", EmptyText) \o vm[handle_of(product)])
    ELSE product

\* the body of the "for product in catalog['products']" loop: the product
\* after the iteration
JoinProduct(product, vm) ==
    IF Matches(product, vm)
    THEN Put(product, "vendor", vm[handle_of(product)])
    ELSE product

\* mutant of JoinProducts: products without a vendor are left out
JoinProductsDropUnmatched(products, vm) ==
    LET kept == SelectSeq(products, LAMBDA p : Matches(p, vm))
    IN  [i \in 1..Len(kept) |-> JoinProduct(kept[i], vm)]

\* the products list after the loop: each element mutated in place
JoinProducts(products, vm) ==
    [i \in 1..Len(products) |-> JoinProduct(products[i], vm)]

\* ------------------------------------------------------------------ state
VARIABLES
    csvFile,          \* content of Products.csv
    catalogFile,      \* content of valid_image_catalog.json
    backups,          \* content of valid_image_catalog.json.backup-<t>, by t
    now,              \* int(datetime.now().timestamp()) as last read
    pc,               \* position of main
    err,              \* the exception that ended the run, or "none"
    vendor_map,
    catalog,
    updated_count,
    not_found_count,
    backup_path,      \* the <t> of backup_path, -1 before line 60
    io,               \* file operations of this run, in order
    startCatalog,     \* catalogFile when this run started
    startBackups,     \* backups when this run started
    runs              \* one record per earlier run of main

vars == <<csvFile, catalogFile, backups, now, pc, err, vendor_map, catalog,
          updated_count, not_found_count, backup_path, io, startCatalog,
          startBackups, runs>>

disk == <<csvFile, catalogFile, backups>>
memory == <<vendor_map, catalog, updated_count, not_found_count, backup_path>>
history == <<startCatalog, startBackups, runs>>

\* ----------------------------------------------------------------- inputs
HV == <<"Handle", "Vendor">>
tA == <<"a">>
tB == <<"b">>
tX == <<"X">>
tY == <<"Y">>
tZ == <<"Z">>
tTitle == <<"T">>
tMeta == <<"v", "1">>

\* vendor tables of the runs of main
MainCsvFiles ==
    { [kind |-> "missing"],
      [kind |-> "undecodable"],
      Table(HV, << <<tA, tX>>, << <<" ", "A", " ">>, <<"Y", " ">> >> >>),
      Table(HV, << <<tB, tX>> >>),
      Table(HV, << <<<<"A">>, tX>>, << >>, <<<<"b", " ">>, tY>> >>),
      Table(HV, << <<tA, tX>>, <<tB>> >>),
      Table(<<"Handle">>, << <<tA>> >>) }

HandleInputs == { << >>, tA, <<" ", "A", " ">>, tB }
VendorInputs == { tZ }

WithKey(d, key, values) == {d} \cup {Put(d, key, v) : v \in values}

\* product records: title always, handle and vendor present or not
ProductInputs ==
    UNION { WithKey(p, "vendor", VendorInputs) :
            p \in WithKey([title |-> tTitle], "handle", HandleInputs) }

CatalogDocs(products) ==
    { [meta |-> tMeta, products |-> ps] : ps \in SeqsUpTo(products, MaxProducts) }

CatalogFiles ==
    { MissingFile, Garbage, Json("compact", [meta |-> tMeta]) }
    \cup { Json(fmt, doc) : fmt \in {"compact", "indent2"},
                            doc \in CatalogDocs(ProductInputs) }

\* inputs of the repeated runs
RerunCsvFiles ==
    { Table(HV, << <<tA, tX>>, << <<" ", "A", " ">>, <<"Y", " ">> >> >>),
      Table(HV, << <<tB, tX>> >>) }

RerunProducts ==
    UNION { WithKey(p, "vendor", VendorInputs) :
            p \in { [title |-> tTitle, handle |-> <<" ", "A", " ">>],
                    [title |-> tTitle, handle |-> tB] } }

RerunCatalogFiles ==
    { Json(fmt, doc) : fmt \in {"compact", "indent2"},
                       doc \in CatalogDocs(RerunProducts) }

\* vendor tables of load_vendor_map alone
LoadHandles == { << >>, tA, <<" ", "A">>, tB }
LoadVendorsTexts == { << >>, <<" ">>, tX, <<"Y", " ">> }
LoadLines ==
    { << >> } \cup { <<h>> : h \in LoadHandles \ {EmptyText} }
    \cup { <<h, v>> : h \in LoadHandles, v \in LoadVendorsTexts }

LoadCsvFiles ==
    { [kind |-> "missing"], [kind |-> "undecodable"] }
    \cup { Table(HV, lines) : lines \in SeqsUpTo(LoadLines, MaxRows) }
    \cup { Table(<<"Handle">>, << <<tA>> >>), Table(<<"Vendor">>, << <<tX>> >>) }

\* ------------------------------------------------------------------- Init
InitRun ==
    /\ backups = [t \in 0..MaxClock |-> MissingFile]
    /\ now = 0
    /\ pc = "start"
    /\ err = "none"
    /\ vendor_map = EmptyDict
    /\ catalog = EmptyDict
    /\ updated_count = 0
    /\ not_found_count = 0
    /\ backup_path = -1
    /\ io = << >>
    /\ startCatalog = catalogFile
    /\ startBackups = backups
    /\ runs = << >>

Init ==
    /\ csvFile \in MainCsvFiles
    /\ catalogFile \in CatalogFiles
    /\ InitRun

InitRerun ==
    /\ csvFile \in RerunCsvFiles
    /\ catalogFile \in RerunCatalogFiles
    /\ InitRun

InitLoad ==
    /\ csvFile \in LoadCsvFiles
    /\ catalogFile = MissingFile
    /\ InitRun

\* ---------------------------------------------------------------- actions
Fail(e) ==
    /\ pc' = "failed"
    /\ err' = e

\* line 34: vendor_map = load_vendor_map(csv_path)
LoadVendors ==
    /\ pc = "start"
    /\ io' = Append(io, "open Products.csv")
    /\ LET r == load_vendor_map(csvFile)
       IN  IF r.ok
           THEN /\ vendor_map' = r.val
                /\ pc' = "loaded"
                /\ err' = err
           ELSE /\ Fail(r.err)
                /\ vendor_map' = vendor_map
    /\ UNCHANGED <<disk, now, catalog, updated_count, not_found_count,
                   backup_path, history>>

\* lines 37-38: catalog = json.load(f)
ReadCatalog ==
    /\ pc = "loaded"
    /\ io' = Append(io, "open catalog")
    /\ LET r == json_load(catalogFile)
       IN  IF r.ok
           THEN /\ catalog' = r.val
                /\ pc' = "read"
                /\ err' = err
           ELSE /\ Fail(r.err)
                /\ catalog' = catalog
    /\ UNCHANGED <<disk, now, vendor_map, updated_count, not_found_count,
                   backup_path, history>>

\* lines 40-57: the join loop; catalog['products'] raises KeyError when the
\* document has no products
Join ==
    /\ pc = "read"
    /\ IF "products" \in DOMAIN catalog
       THEN LET ps == catalog["products"]
                hit == {i \in 1..Len(ps) : Matches(ps[i], vendor_map)}
            IN  /\ catalog' = Put(catalog, "products", JoinProducts(ps, vendor_map))
                /\ updated_count' = Cardinality(hit)
                /\ not_found_count' = Len(ps) - Cardinality(hit)
                /\ pc' = "joined"
                /\ err' = err
       ELSE /\ Fail("MalformedInput")
            /\ UNCHANGED <<catalog, updated_count, not_found_count>>
    /\ UNCHANGED <<disk, now, vendor_map, backup_path, io, history>>

\* mutant of Backup: the backup is written from the document in memory
BackupOfMemory ==
    /\ pc = "joined"
    /\ \E t \in now..MaxClock :
        /\ now' = t
        /\ backup_path' = t
        /\ backups' = [backups EXCEPT ![t] = json_dump(catalog)]
        /\ io' = Append(io, "copy2 returned")
        /\ pc' = "backed_up"
        /\ err' = err
    /\ UNCHANGED <<csvFile, catalogFile, vendor_map, catalog, updated_count,
                   not_found_count, history>>

\* mutant of Backup: the exception of copy2 is swallowed
BackupErrorIgnored ==
    /\ pc = "joined"
    /\ \E t \in now..MaxClock :
        /\ now' = t
        /\ backup_path' = t
        /\ \/ /\ backups' = [backups EXCEPT ![t] = catalogFile]
              /\ io' = Append(io, "copy2 returned")
           \/ /\ \E left \in {backups[t], Truncated} :
                    backups' = [backups EXCEPT ![t] = left]
              /\ io' = Append(io, "copy2 raised")
        /\ pc' = "backed_up"
        /\ err' = err
    /\ UNCHANGED <<csvFile, catalogFile, vendor_map, catalog, updated_count,
                   not_found_count, history>>

\* lines 60-61: backup_path from the clock, shutil.copy2(catalog_path,
\* backup_path); a copy that raises leaves the destination as it was or
\* partly written
Backup ==
    /\ pc = "joined"
    /\ \E t \in now..MaxClock :
        /\ now' = t
        /\ backup_path' = t
        /\ \/ /\ backups' = [backups EXCEPT ![t] = catalogFile]
              /\ io' = Append(io, "copy2 returned")
              /\ pc' = "backed_up"
              /\ err' = err
           \/ /\ \E left \in {backups[t], Truncated} :
                    backups' = [backups EXCEPT ![t] = left]
              /\ io' = Append(io, "copy2 raised")
              /\ Fail("BackupFailed")
    /\ UNCHANGED <<csvFile, catalogFile, vendor_map, catalog, updated_count,
                   not_found_count, history>>

\* lines 65-66: open(catalog_path, 'w') and json.dump; open may raise with
\* the file untouched, and a dump that raises leaves the file truncated
WriteCatalog ==
    /\ pc = "backed_up"
    /\ \/ /\ catalogFile' = json_dump(catalog)
          /\ io' = Append(io, "write returned")
          /\ pc' = "done"
          /\ err' = err
       \/ /\ catalogFile' = catalogFile
          /\ io' = Append(io, "open for write raised")
          /\ Fail("WriteFailed")
       \/ /\ catalogFile' = Truncated
          /\ io' = Append(io, "write raised")
          /\ Fail("WriteFailed")
    /\ UNCHANGED <<csvFile, backups, now, memory, history>>

\* what the run that has just ended did
ThisRun ==
    [ ok |-> pc = "done", err |-> err, path |-> backup_path,
      before |-> startCatalog, after |-> catalogFile ]

\* line 70, once more: the operator starts main again in the same directory
Rerun ==
    /\ pc \in {"done", "failed"}
    /\ Len(runs) + 1 < MaxRuns
    /\ runs' = Append(runs, ThisRun)
    /\ startCatalog' = catalogFile
    /\ startBackups' = backups
    /\ pc' = "start"
    /\ err' = "none"
    /\ vendor_map' = EmptyDict
    /\ catalog' = EmptyDict
    /\ updated_count' = 0
    /\ not_found_count' = 0
    /\ backup_path' = -1
    /\ io' = << >>
    /\ UNCHANGED <<disk, now>>

Next ==
    \/ LoadVendors
    \/ ReadCatalog
    \/ Join
    \/ Backup
    \/ WriteCatalog

NextRerun ==
    \/ Next
    \/ Rerun

NextLoad == LoadVendors

\* one run of main
Spec == Init /\ [][Next]_vars

\* runs of main one after another on the same directory
SpecRerun == InitRerun /\ [][NextRerun]_vars

\* load_vendor_map on every vendor table of the bounds
SpecLoad == InitLoad /\ [][NextLoad]_vars

\* ------------------------------------------------------- claims: helpers
Range(q) == {q[i] : i \in 1..Len(q)}

WriteSteps == {"write returned", "open for write raised", "write raised"}

\* the products the run read and the products now on disk
InProducts == startCatalog.doc["products"]
OutProducts == catalogFile.doc["products"]

\* handle of an input product as the specification normalizes it
NormalizedHandle(p) ==
    strip(lower(IF "handle" \in DOMAIN p THEN p["handle"] ELSE EmptyText))

WithoutVendor(p) == [k \in DOMAIN p \ {"vendor"} |-> p[k]]

\* text of column col in data line i of a vendor table; a column the header
\* lacks, or the line is too short for, reads as the empty text
FieldText(file, i, col) ==
    LET at == {j \in 1..Len(file.header) : file.header[j] = col}
    IN  IF at = {} THEN EmptyText
        ELSE LET j == CHOOSE x \in at : TRUE
             IN  IF j <= Len(file.lines[i]) THEN file.lines[i][j] ELSE EmptyText

RowHandle(file, i) == strip(lower(FieldText(file, i, "Handle")))
RowVendor(file, i) == strip(FieldText(file, i, "Vendor"))

\* every line is blank or has a field for every column of the header
CompleteLines(file) ==
    \A i \in 1..Len(file.lines) :
        Len(file.lines[i]) \in {0, Len(file.header)}

Last(S) == CHOOSE i \in S : \A j \in S : j <= i

\* the runs that have ended, oldest first
EndedRuns == IF pc \in {"done", "failed"} THEN Append(runs, ThisRun) ELSE runs

\* ------------------------------------------------------------------ claims
\* C1: the write step is never attempted unless copy2 returned before it in
\* the same run; and when copy2 raises, the run ends there with the catalog
\* file exactly as it was when the run started.
C1_BackupBeforeWrite ==
    /\ \A i \in 1..Len(io) :
          io[i] \in WriteSteps => \E j \in 1..(i - 1) : io[j] = "copy2 returned"
    /\ "copy2 raised" \in Range(io) =>
          /\ pc = "failed"
          /\ err = "BackupFailed"
          /\ ~ ENABLED Next
          /\ catalogFile = startCatalog
          /\ Range(io) \cap WriteSteps = {}

C1_Witness ==
    /\ err = "BackupFailed"
    /\ pc = "failed"
    /\ startCatalog.kind = "json"
    /\ catalogFile = startCatalog
    /\ updated_count > 0

\* C2: after a completed run, every product whose normalized handle is a key
\* of the vendor map has that key's vendor, every other product has the
\* vendor field it had (absent or the old value), and updated_count counts
\* exactly the products whose normalized handle is a key.
C2_JoinCorrect ==
    pc = "done" =>
        /\ \A i \in 1..Len(InProducts) :
              /\ i \in DOMAIN OutProducts
              /\ LET H == NormalizedHandle(InProducts[i])
                     before == InProducts[i]
                     after == OutProducts[i]
                 IN  IF H \in DOMAIN vendor_map
                     THEN "vendor" \in DOMAIN after /\ after["vendor"] = vendor_map[H]
                     ELSE /\ ("vendor" \in DOMAIN after) = ("vendor" \in DOMAIN before)
                          /\ "vendor" \in DOMAIN before =>
                                after["vendor"] = before["vendor"]
        /\ updated_count =
              Cardinality({i \in 1..Len(InProducts) :
                              NormalizedHandle(InProducts[i]) \in DOMAIN vendor_map})

C2_Witness ==
    /\ pc = "done"
    /\ \E i \in 1..Len(InProducts) :
          /\ Get(InProducts[i], "handle", EmptyText) = <<" ", "A", " ">>
          /\ "vendor" \notin DOMAIN InProducts[i]
          /\ Get(OutProducts[i], "vendor", EmptyText) = tY
    /\ \E i \in 1..Len(InProducts) :
          /\ NormalizedHandle(InProducts[i]) \notin DOMAIN vendor_map
          /\ OutProducts[i] = InProducts[i]

\* C3: once the write step is reached the backup file of the run holds the
\* content the catalog file has just before the write, and it still holds
\* that content after the write, whether the write returned or raised.
C3_BackupFidelity ==
    /\ pc = "backed_up" => backups[backup_path] = catalogFile
    /\ Range(io) \cap WriteSteps # {} => backups[backup_path] = startCatalog

C3_Witness ==
    /\ pc = "failed"
    /\ err = "WriteFailed"
    /\ catalogFile = Truncated
    /\ startCatalog.kind = "json"
    /\ startCatalog.fmt = "compact"
    /\ backups[backup_path] = startCatalog

\* C4: a vendor table that is missing or cannot be decoded ends the run with
\* only Products.csv opened; a catalog that is missing or unparseable ends
\* the run at the latest in the join; and a run ended by FileNotFound or
\* MalformedInput has changed neither the catalog file nor any backup file.
C4_FailBeforeMutation ==
    /\ (csvFile.kind \in {"missing", "undecodable"} /\ pc # "start") =>
          /\ pc = "failed"
          /\ err = (IF csvFile.kind = "missing" THEN "FileNotFound"
                                                ELSE "MalformedInput")
          /\ io = <<"open Products.csv">>
    /\ startCatalog.kind # "json" =>
          /\ pc \in {"start", "loaded", "failed"}
          /\ pc = "failed" => err # "none"
    /\ (startCatalog.kind = "json" /\ "products" \notin DOMAIN startCatalog.doc) =>
          /\ pc \in {"start", "loaded", "read", "failed"}
          /\ pc = "failed" => err # "none"
    /\ err \in {"FileNotFound", "MalformedInput"} =>
          /\ pc = "failed"
          /\ ~ ENABLED Next
          /\ catalogFile = startCatalog
          /\ backups = startBackups
          /\ Range(io) \subseteq {"open Products.csv", "open catalog"}

C4_Witness ==
    /\ csvFile.kind = "missing"
    /\ startCatalog.kind = "json"
    /\ pc = "failed"
    /\ err = "FileNotFound"
    /\ io = <<"open Products.csv">>

\* C5: after a completed run the catalog on disk has as many products as the
\* catalog the run read, and the product at each position is the product
\* that was at that position (the same record up to its vendor).
C5_CountAndOrder ==
    pc = "done" =>
        /\ Len(OutProducts) = Len(InProducts)
        /\ \A i \in 1..Len(InProducts) :
              i \in DOMAIN OutProducts =>
                  WithoutVendor(OutProducts[i]) = WithoutVendor(InProducts[i])

C5_Witness ==
    /\ pc = "done"
    /\ Len(InProducts) >= 2
    /\ \E i, j \in 1..Len(InProducts) :
          /\ i < j
          /\ WithoutVendor(InProducts[i]) # WithoutVendor(InProducts[j])
          /\ OutProducts[i] = InProducts[i]
          /\ OutProducts[j] # InProducts[j]

\* C6: after a completed run the catalog on disk has the top-level fields of
\* the catalog the run read, each other than products with its old value;
\* every product has its old fields other than vendor with their old
\* values; and a product whose normalized handle is no key of the vendor
\* map is the record it was.
C6_OnlyVendorChanges ==
    pc = "done" =>
        /\ DOMAIN catalogFile.doc = DOMAIN startCatalog.doc
        /\ \A k \in DOMAIN startCatalog.doc \ {"products"} :
              catalogFile.doc[k] = startCatalog.doc[k]
        /\ \A i \in DOMAIN InProducts \cap DOMAIN OutProducts :
              /\ DOMAIN OutProducts[i] \ {"vendor"} = DOMAIN InProducts[i] \ {"vendor"}
              /\ \A k \in DOMAIN InProducts[i] \ {"vendor"} :
                    OutProducts[i][k] = InProducts[i][k]
              /\ NormalizedHandle(InProducts[i]) \notin DOMAIN vendor_map =>
                    OutProducts[i] = InProducts[i]

C6_Witness ==
    /\ pc = "done"
    /\ startCatalog.doc["meta"] = tMeta
    /\ catalogFile.doc["meta"] = tMeta
    /\ \E i \in 1..Len(InProducts) :
          /\ InProducts[i] = [title |-> tTitle, handle |-> <<" ", "A", " ">>, vendor |-> tZ]
          /\ OutProducts[i] = [title |-> tTitle, handle |-> <<" ", "A", " ">>, vendor |-> tX]

\* C7 as stated: load_vendor_map raises nothing on a table of complete
\* lines, and a handle that several lines normalize to is mapped to the
\* (trimmed) vendor of the last of those lines, no entry standing for an
\* empty vendor.
C7_LastOccurrenceWins ==
    (pc # "start" /\ csvFile.kind = "table" /\ CompleteLines(csvFile)) =>
        /\ err = "none"
        /\ \A i, j \in 1..Len(csvFile.lines) :
              (i < j /\ RowHandle(csvFile, i) = RowHandle(csvFile, j)
                     /\ RowHandle(csvFile, i) # EmptyText) =>
                  LET h == RowHandle(csvFile, i)
                      last == Last({k \in 1..Len(csvFile.lines) :
                                       RowHandle(csvFile, k) = h})
                  IN  Get(vendor_map, h, EmptyText) = RowVendor(csvFile, last)

\* C7 as amended: load_vendor_map raises nothing on a table of complete
\* lines, and whenever it returns, each non-empty normalized handle is
\* mapped to the trimmed vendor of the last line with that normalized handle
\* and a non-empty trimmed vendor, and is no key when there is no such line.
C7_LastNonEmptyVendorWins ==
    /\ (pc # "start" /\ csvFile.kind = "table" /\ CompleteLines(csvFile)) =>
          pc = "loaded" /\ err = "none"
    /\ (pc = "loaded" /\ csvFile.kind = "table") =>
          \A i \in 1..Len(csvFile.lines) :
              LET h == RowHandle(csvFile, i)
                  occ == {k \in 1..Len(csvFile.lines) :
                             /\ RowHandle(csvFile, k) = h
                             /\ RowVendor(csvFile, k) # EmptyText}
              IN  h # EmptyText =>
                      IF occ = {} THEN h \notin DOMAIN vendor_map
                      ELSE /\ h \in DOMAIN vendor_map
                           /\ vendor_map[h] = RowVendor(csvFile, Last(occ))

C7_Witness ==
    /\ pc = "loaded"
    /\ csvFile.kind = "table"
    /\ Len(csvFile.lines) = 3
    /\ csvFile.lines[1] = <<tA, tX>>
    /\ csvFile.lines[2] = << <<" ", "A">>, <<"Y", " ">> >>
    /\ csvFile.lines[3] = <<tA, <<" ">> >>
    /\ vendor_map = (tA :> tY)

\* C8: when a run completes on the catalog a completed run wrote, with the
\* same vendor table, the catalog file it writes is the catalog file it
\* read: two runs leave what one run leaves.
C8_RerunWritesWhatItRead ==
    \A k \in 2..Len(EndedRuns) :
        (EndedRuns[k - 1].ok /\ EndedRuns[k].ok) =>
            /\ EndedRuns[k].before = EndedRuns[k - 1].after
            /\ EndedRuns[k].after = EndedRuns[k].before

C8_Witness ==
    /\ Len(EndedRuns) = 2
    /\ EndedRuns[1].ok
    /\ EndedRuns[2].ok
    /\ EndedRuns[1].before.fmt = "indent2"
    /\ EndedRuns[1].after # EndedRuns[1].before
    /\ EndedRuns[2].after = EndedRuns[1].after

\* C9 as stated: on any vendor table load_vendor_map raises nothing; the
\* keys of the map are exactly the non-empty normalized handles of the lines
\* whose trimmed vendor is non-empty too (a field the line or the header
\* lacks counting as empty); no key and no value is empty.
C9_SkipsRowsSilently ==
    (pc # "start" /\ csvFile.kind = "table") =>
        /\ err = "none"
        /\ pc = "loaded"
        /\ DOMAIN vendor_map =
              {RowHandle(csvFile, i) : i \in
                  {k \in 1..Len(csvFile.lines) :
                      /\ RowHandle(csvFile, k) # EmptyText
                      /\ RowVendor(csvFile, k) # EmptyText}}
        /\ \A h \in DOMAIN vendor_map : h # EmptyText /\ vendor_map[h] # EmptyText

\* C10 as stated: after n runs that all completed there are n backup files,
\* and the backup file of each run still holds the catalog file that run
\* started from.
C10_OneBackupPerRun ==
    (pc = "done" /\ \A k \in 1..Len(EndedRuns) : EndedRuns[k].ok) =>
        /\ Cardinality({t \in DOMAIN backups : backups[t].kind # "missing"})
              = Len(EndedRuns)
        /\ \A k \in 1..Len(EndedRuns) :
              backups[EndedRuns[k].path] = EndedRuns[k].before

====
